---- MODULE Spec2Model ----
(***************************************************************************)
(* Call-sentiment aggregation and filtering pipeline of call-sense.        *)
(*                                                                         *)
(* Sentiment scores are fixed-point numbers in hundredths (the store keeps *)
(* DECIMAL(5,2)): the score 0.2 is 20, -0.2 is -20.  Strings are sequences *)
(* of one-character strings.  A quotient is an exact fraction              *)
(* [num |-> n, den |-> d] with d > 0.                                      *)
(***************************************************************************)
EXTENDS Integers, Sequences, FiniteSets, TLC

VARIABLES
    calls,            \* Dashboard: useState<Call[]>([])
    isLoading,        \* Dashboard: useState(true)
    isRefreshing,     \* Dashboard: useState(false)
    searchTerm,       \* Dashboard: useState('')
    statusFilter,     \* Dashboard: 'all' | 'solved' | 'unsolved'
    sentimentFilter,  \* Dashboard: 'all' | 'positive' | 'neutral' | 'negative'
    filteredCalls,    \* Dashboard: useMemo value handed to the list and chart
    stats,            \* Dashboard: useMemo value handed to OverviewCards
    pending,          \* getCalls requests in flight
    issued,           \* number of getCalls requests issued so far
    score,            \* argument of a getSentimentLevel call
    level,            \* result of that getSentimentLevel call
    pc,               \* position of the pure-function drivers
    callForm,         \* CallForm: formData, errors and the onSubmit calls made
    callList,         \* CallList (search by phone): its state and its request
    app,              \* App: currentTab, isSubmitting, submitMessage, save, timers
    loads,            \* Dashboard: the request whose response is shown, last outcome
    chart,            \* SentimentChart: locale and its two useMemo values
    competitors,      \* Competitors: alerts, error and the mark-read requests
    index,            \* Index: isLoggedIn, userPhone, isLoading, loginError, request
    loginForm         \* LoginForm: phone, validationError and the onLogin calls made

\* the state of the add-call / search-by-phone application
viewVars == <<callForm, callList, app>>

\* the state of the Dashboard and of the pipeline drivers
pipelineVars == <<calls, isLoading, isRefreshing, searchTerm, statusFilter,
                  sentimentFilter, filteredCalls, stats, pending, issued,
                  score, level, pc, loads>>

\* the state of the chart, of the Competitors page and of the login pages
pageVars == <<chart, competitors, index, loginForm>>

vars == <<calls, isLoading, isRefreshing, searchTerm, statusFilter,
          sentimentFilter, filteredCalls, stats, pending, issued,
          score, level, pc, callForm, callList, app,
          loads, chart, competitors, index, loginForm>>

----------------------------------------------------------------------------
(* Bounds *)

MaxCalls == 2        \* longest response of the call record source
MaxRequests == 2     \* getCalls requests issued in one run
MaxScore == 150      \* classifier inputs range over -MaxScore..MaxScore
MaxLen == 3          \* longest sequence handed to a function called on its own
MaxSearches == 3     \* submits of the phone search form in one run
MaxSubmits == 4      \* call records submitted in one run
MaxAlerts == 3       \* longest list of competitor alerts
MaxMarks == 2        \* calls of handleMarkAsRead in one run
MaxChartCalls == 9   \* longest sequence handed to the SentimentChart
MaxAffix == 1        \* characters typed before the digits of a phone number
MaxLogins == 6       \* calls of handleLogin in one run

----------------------------------------------------------------------------
(* Strings *)

Chars == {"1", "a", "A", " "}

\* String.prototype.toLowerCase on one character
LowerChar(c) == IF c = "A" THEN "a" ELSE c

\* variant: the string is compared as typed
toLowerCaseIdentity(s) == s

toLowerCase(s) == [i \in 1..Len(s) |-> LowerChar(s[i])]

\* String.prototype.includes: t occurs in s at some offset
includes(s, t) ==
    \E off \in 0..(Len(s) - Len(t)) :
        \A i \in 1..Len(t) : s[off + i] = t[i]

RECURSIVE SeqsUpTo(_, _)
SeqsUpTo(S, n) ==
    IF n = 0 THEN {<<>>}
    ELSE LET shorter == SeqsUpTo(S, n - 1)
         IN  shorter \cup {Append(s, x) : s \in {t \in shorter : Len(t) = n - 1}, x \in S}

\* the texts typed into the search box
SearchTerms == {<<>>, <<"1">>, <<"a">>, <<"A">>, <<" ">>, <<"1", "a">>}

StatusFilters == {"all", "solved", "unsolved"}
SentimentFilters == {"all", "positive", "neutral", "negative"}
SentimentLevels == {"positive", "neutral", "negative"}

----------------------------------------------------------------------------
(* Call records *)

Call(id, phone, sentiments, solved) ==
    [id |-> id, phone |-> phone, sentiments |-> sentiments, solved |-> solved]

\* The records the call record source holds
StoredCalls ==
    { Call(1, <<"1", "A">>, 50, TRUE),
      Call(2, <<"a", "1">>, -30, FALSE),
      Call(3, <<"1", " ", "1">>, 0, TRUE),
      Call(4, <<"A">>, 20, FALSE) }

\* the sequences of at most n stored records, identifiers unique
CallSeqs(n) ==
    { r \in SeqsUpTo(StoredCalls, n) :
        \A i, j \in 1..Len(r) : i # j => r[i].id # r[j].id }

\* what getCalls may resolve with
Responses == CallSeqs(MaxCalls)

----------------------------------------------------------------------------
(* utils/sentiment *)

PositiveThreshold == 20
NegativeThreshold == -20

\* JSON null in the sentiments field (CallRecord.sentiments: number | null),
\* encoded by a value no DECIMAL(5,2) score can take
NullScore == 100000

\* the number a comparison or an addition sees: null counts as 0
ToNumber(v) == IF v = NullScore THEN 0 ELSE v

\* variant: strict comparisons at the thresholds
getSentimentLevelStrict(s) ==
    IF ToNumber(s) > PositiveThreshold THEN "positive"
    ELSE IF ToNumber(s) < NegativeThreshold THEN "negative"
    ELSE "neutral"

getSentimentLevel(s) ==
    IF ToNumber(s) >= PositiveThreshold THEN "positive"
    ELSE IF ToNumber(s) <= NegativeThreshold THEN "negative"
    ELSE "neutral"

\* variant: counts the records that are not solved
RECURSIVE CountUnsolved(_)
CountUnsolved(cs) ==
    IF cs = <<>> THEN 0
    ELSE (IF Head(cs).solved THEN 0 ELSE 1) + CountUnsolved(Tail(cs))

\* calls.filter(pred).length
RECURSIVE CountSolved(_)
CountSolved(cs) ==
    IF cs = <<>> THEN 0
    ELSE (IF Head(cs).solved THEN 1 ELSE 0) + CountSolved(Tail(cs))

\* variant: the reduce has no initial value, so the first element seeds the sum
RECURSIVE SumSentimentsSkipFirst(_, _)
SumSentimentsSkipFirst(cs, sum) ==
    IF cs = <<>> THEN sum
    ELSE IF Len(cs) = 1 THEN sum
    ELSE SumSentimentsSkipFirst(Tail(cs), sum + ToNumber(Head(Tail(cs)).sentiments))

\* calls.reduce((sum, call) => sum + call.sentiments, 0)
RECURSIVE SumSentiments(_, _)
SumSentiments(cs, sum) ==
    IF cs = <<>> THEN sum
    ELSE SumSentiments(Tail(cs), sum + ToNumber(Head(cs).sentiments))

\* variant: neutral records are not counted
RECURSIVE DistributionSkipsNeutral(_, _)
DistributionSkipsNeutral(cs, acc) ==
    IF cs = <<>> THEN acc
    ELSE LET lvl == getSentimentLevel(Head(cs).sentiments)
         IN  DistributionSkipsNeutral(Tail(cs),
                 IF lvl = "neutral" THEN acc ELSE [acc EXCEPT ![lvl] = @ + 1])

\* calls.reduce((acc, call) => { acc[level]++; return acc }, {0, 0, 0})
RECURSIVE Distribution(_, _)
Distribution(cs, acc) ==
    IF cs = <<>> THEN acc
    ELSE LET lvl == getSentimentLevel(Head(cs).sentiments)
         IN  Distribution(Tail(cs), [acc EXCEPT ![lvl] = @ + 1])

\* the quotient n / d, d > 0
Quotient(n, d) == [num |-> n, den |-> d]

EmptyStats ==
    [total |-> 0, solved |-> 0, unsolved |-> 0,
     averageSentiment |-> Quotient(0, 1),
     sentimentDistribution |-> [positive |-> 0, neutral |-> 0, negative |-> 0]]

\* variant: no early return for the empty sequence
calculateCallStatsNoGuard(cs) ==
    LET solved == CountSolved(cs)
        unsolved == Len(cs) - solved
    IN  [total |-> Len(cs),
         solved |-> solved,
         unsolved |-> unsolved,
         averageSentiment |-> Quotient(SumSentiments(cs, 0), Len(cs)),
         sentimentDistribution |->
             Distribution(cs, [positive |-> 0, neutral |-> 0, negative |-> 0])]

calculateCallStats(cs) ==
    IF Len(cs) = 0 THEN EmptyStats
    ELSE LET solved == CountSolved(cs)
             unsolved == Len(cs) - solved
         IN  [total |-> Len(cs),
              solved |-> solved,
              unsolved |-> unsolved,
              averageSentiment |-> Quotient(SumSentiments(cs, 0), Len(cs)),
              sentimentDistribution |->
                  Distribution(cs, [positive |-> 0, neutral |-> 0, negative |-> 0])]

----------------------------------------------------------------------------
(* Initial state of the add-call / search-by-phone application *)

\* CallForm: useState initial values; onSubmit holds the calls of onSubmit
\* made by the latest event, event names that event
InitialCallForm ==
    [formData |-> [phone |-> <<>>, transcript |-> <<>>, sentiment |-> 0,
                   insight |-> <<>>, solved |-> FALSE],
     errors |-> {},
     onSubmit |-> <<>>,
     event |-> "none"]

\* no getCalls request of CallList
NoRequest == [status |-> "none", phone |-> <<>>, calls |-> <<>>]

\* CallList: useState initial values; request is its getCalls request,
\* submits counts the submits of the search form
InitialCallList ==
    [phone |-> <<>>, calls |-> <<>>, loading |-> FALSE, error |-> "null",
     hasSearched |-> FALSE, request |-> NoRequest, submits |-> 0]

\* App: useState initial values; save is its saveCall request, timers the
\* pending setTimeout callbacks, submits counts the calls of handleCallSubmit
InitialApp ==
    [currentTab |-> "add", isSubmitting |-> FALSE, submitMessage |-> "null",
     save |-> "none", timers |-> 0, submits |-> 0]

ViewsInitial ==
    /\ callForm = InitialCallForm
    /\ callList = InitialCallList
    /\ app = InitialApp

\* Dashboard: no response shown, no request completed
NoLoads == [shown |-> 0, outcome |-> "none"]

\* SentimentChart of no calls
InitialChart ==
    [locale |-> "en-US",
     sentimentData |-> [Positive |-> 0, Neutral |-> 0, Negative |-> 0],
     trendData |-> <<>>]

\* Competitors: useState initial values; marks are the markAlertAsRead
\* requests in flight, marked the alerts whose request succeeded, clicks
\* counts the calls of handleMarkAsRead
InitialCompetitors ==
    [alerts |-> <<>>, loading |-> TRUE, error |-> "null",
     marks |-> {}, marked |-> {}, clicks |-> 0]

\* no getCalls request of Index
NoLogin == [status |-> "none", phone |-> <<>>]

\* Index: useState initial values; request is the getCalls request of
\* handleLogin, attempts counts the calls of handleLogin
InitialIndex ==
    [isLoggedIn |-> FALSE, userPhone |-> <<>>, isLoading |-> FALSE,
     loginError |-> "null", request |-> NoLogin, attempts |-> 0]

\* LoginForm: useState initial values; onLogin holds the calls of onLogin
\* made by the latest event, event names that event
InitialLoginForm ==
    [phone |-> <<>>, validationError |-> "null", onLogin |-> <<>>,
     event |-> "none"]

PagesInitial ==
    /\ chart = InitialChart
    /\ competitors = InitialCompetitors
    /\ index = InitialIndex
    /\ loginForm = InitialLoginForm

----------------------------------------------------------------------------
(* Views *)

\* utils/sentiment getSentimentLabel: the band of getSentimentLevel, capitalised
getSentimentLabel(s) ==
    LET lvl == getSentimentLevel(s)
    IN  IF lvl = "positive" THEN "Positive"
        ELSE IF lvl = "negative" THEN "Negative"
        ELSE "Neutral"

\* CallCard.getSentimentLabel
CallCardSentimentLabel(s) ==
    IF s = NullScore THEN "No sentiment data"
    ELSE IF s > 10 THEN "Positive"
    ELSE IF s < 0 - 10 THEN "Negative"
    ELSE "Neutral"

\* Calls page getSentimentLabel
CallsPageSentimentLabel(s) ==
    IF s >= 50 THEN "Positive"
    ELSE IF s >= 0 THEN "Neutral"
    ELSE "Negative"

\* OverviewCards: the description of the Avg. Sentiment card
AvgSentimentDescription(st) ==
    IF st.averageSentiment.num >= 0 THEN "Positive trend" ELSE "Needs attention"

\* OverviewCards: what the Avg. Sentiment card shows
AvgSentimentCard(st, loading) ==
    IF loading THEN "skeleton" ELSE AvgSentimentDescription(st)

----------------------------------------------------------------------------
(* Dashboard *)

\* variant: the status branches are exchanged
CallPassesSwapped(call, term, status, sentiment) ==
    IF term # <<>> /\ ~includes(toLowerCase(call.phone), toLowerCase(term))
    THEN FALSE
    ELSE IF status # "all" /\ status = "solved" /\ call.solved
    THEN FALSE
    ELSE IF status # "all" /\ status = "unsolved" /\ ~call.solved
    THEN FALSE
    ELSE IF sentiment # "all" /\ getSentimentLevel(call.sentiments) # sentiment
    THEN FALSE
    ELSE TRUE

\* variant: the sentiment branch lacks its 'all' guard
CallPassesNoAll(call, term, status, sentiment) ==
    IF term # <<>> /\ ~includes(toLowerCase(call.phone), toLowerCase(term))
    THEN FALSE
    ELSE IF status # "all" /\ status = "solved" /\ ~call.solved
    THEN FALSE
    ELSE IF status # "all" /\ status = "unsolved" /\ call.solved
    THEN FALSE
    ELSE IF getSentimentLevel(call.sentiments) # sentiment
    THEN FALSE
    ELSE TRUE

\* the predicate handed to calls.filter
CallPasses(call, term, status, sentiment) ==
    IF term # <<>> /\ ~includes(toLowerCase(call.phone), toLowerCase(term))
    THEN FALSE
    ELSE IF status # "all" /\ status = "solved" /\ ~call.solved
    THEN FALSE
    ELSE IF status # "all" /\ status = "unsolved" /\ call.solved
    THEN FALSE
    ELSE IF sentiment # "all" /\ getSentimentLevel(call.sentiments) # sentiment
    THEN FALSE
    ELSE TRUE

\* variant: passing elements are prepended to the result
RECURSIVE FilterCallsReversed(_, _, _, _)
FilterCallsReversed(cs, term, status, sentiment) ==
    IF cs = <<>> THEN <<>>
    ELSE IF CallPasses(Head(cs), term, status, sentiment)
         THEN FilterCallsReversed(Tail(cs), term, status, sentiment) \o <<Head(cs)>>
         ELSE FilterCallsReversed(Tail(cs), term, status, sentiment)

\* Array.prototype.filter: keeps the passing elements in input order
RECURSIVE FilterCalls(_, _, _, _)
FilterCalls(cs, term, status, sentiment) ==
    IF cs = <<>> THEN <<>>
    ELSE IF CallPasses(Head(cs), term, status, sentiment)
         THEN <<Head(cs)>> \o FilterCalls(Tail(cs), term, status, sentiment)
         ELSE FilterCalls(Tail(cs), term, status, sentiment)

\* variant: the statistics are taken over the unfiltered calls
DashboardStatsUnfiltered(all, filtered) == calculateCallStats(all)

\* useMemo(() => calculateCallStats(filteredCalls), [filteredCalls])
DashboardStats(all, filtered) == calculateCallStats(filtered)

\* One render of Dashboard: both memos are recomputed from the new state
Render(cs, term, status, sentiment) ==
    LET filtered == FilterCalls(cs, term, status, sentiment)
    IN  /\ filteredCalls' = filtered
        /\ stats' = DashboardStats(cs, filtered)

Init ==
    /\ calls = <<>>
    /\ isLoading = TRUE
    /\ isRefreshing = FALSE
    /\ searchTerm = <<>>
    /\ statusFilter = "all"
    /\ sentimentFilter = "all"
    /\ filteredCalls = <<>>
    /\ stats = EmptyStats
    /\ pending = {}
    /\ issued = 0
    /\ loads = NoLoads
    /\ score = 0
    /\ level = "none"
    /\ pc = "dashboard"
    /\ ViewsInitial
    /\ PagesInitial

\* useEffect(() => { loadCalls() }, [phone])
Mount ==
    /\ issued = 0
    /\ issued' = 1
    /\ pending' = pending \cup {[id |-> 1, isRefresh |-> FALSE]}
    /\ UNCHANGED <<viewVars, pageVars, loads, calls, isLoading, isRefreshing, searchTerm, statusFilter,
                   sentimentFilter, filteredCalls, stats,
                   score, level, pc>>

\* Refresh button (disabled while isRefreshing) -> loadCalls(true), up to the await
handleRefresh ==
    /\ issued >= 1
    /\ issued < MaxRequests
    /\ ~isRefreshing
    /\ isRefreshing' = TRUE
    /\ issued' = issued + 1
    /\ pending' = pending \cup {[id |-> issued + 1, isRefresh |-> TRUE]}
    /\ Render(calls, searchTerm, statusFilter, sentimentFilter)
    /\ UNCHANGED <<viewVars, pageVars, loads, calls, isLoading, searchTerm, statusFilter, sentimentFilter,
                   score, level, pc>>

\* loadCalls after the await, getCalls resolved with callsData
LoadSucceed(req, callsData) ==
    /\ req \in pending
    /\ pending' = pending \ {req}
    /\ calls' = callsData
    /\ isLoading' = FALSE
    /\ isRefreshing' = FALSE
    /\ loads' = [shown |-> req.id, outcome |-> "resolved"]
    /\ Render(callsData, searchTerm, statusFilter, sentimentFilter)
    /\ UNCHANGED <<viewVars, pageVars, searchTerm, statusFilter, sentimentFilter, issued,
                   score, level, pc>>

\* variant: the catch block empties the calls
LoadFailClearsCalls(req) ==
    /\ req \in pending
    /\ pending' = pending \ {req}
    /\ calls' = <<>>
    /\ isLoading' = FALSE
    /\ isRefreshing' = FALSE
    /\ loads' = [loads EXCEPT !.outcome = "rejected"]
    /\ Render(<<>>, searchTerm, statusFilter, sentimentFilter)
    /\ UNCHANGED <<viewVars, pageVars, searchTerm, statusFilter, sentimentFilter, issued,
                   score, level, pc>>

\* loadCalls after the await, getCalls rejected
LoadFail(req) ==
    /\ req \in pending
    /\ pending' = pending \ {req}
    /\ isLoading' = FALSE
    /\ isRefreshing' = FALSE
    /\ loads' = [loads EXCEPT !.outcome = "rejected"]
    /\ Render(calls, searchTerm, statusFilter, sentimentFilter)
    /\ UNCHANGED <<viewVars, pageVars, calls, searchTerm, statusFilter, sentimentFilter, issued,
                   score, level, pc>>

\* SearchFilter: onSearchChange(e.target.value)
setSearchTerm(term) ==
    /\ term # searchTerm
    /\ searchTerm' = term
    /\ Render(calls, term, statusFilter, sentimentFilter)
    /\ UNCHANGED <<viewVars, pageVars, loads, calls, isLoading, isRefreshing, statusFilter, sentimentFilter,
                   pending, issued, score, level, pc>>

\* SearchFilter: onStatusFilterChange
setStatusFilter(status) ==
    /\ status # statusFilter
    /\ statusFilter' = status
    /\ Render(calls, searchTerm, status, sentimentFilter)
    /\ UNCHANGED <<viewVars, pageVars, loads, calls, isLoading, isRefreshing, searchTerm, sentimentFilter,
                   pending, issued, score, level, pc>>

\* SearchFilter: onSentimentFilterChange
setSentimentFilter(sentiment) ==
    /\ sentiment # sentimentFilter
    /\ sentimentFilter' = sentiment
    /\ Render(calls, searchTerm, statusFilter, sentiment)
    /\ UNCHANGED <<viewVars, pageVars, loads, calls, isLoading, isRefreshing, searchTerm, statusFilter,
                   pending, issued, score, level, pc>>

\* SearchFilter: the Clear button, shown while a filter is active
clearFilters ==
    /\ statusFilter # "all" \/ sentimentFilter # "all"
    /\ statusFilter' = "all"
    /\ sentimentFilter' = "all"
    /\ Render(calls, searchTerm, "all", "all")
    /\ UNCHANGED <<viewVars, pageVars, loads, calls, isLoading, isRefreshing, searchTerm,
                   pending, issued, score, level, pc>>

Next ==
    \/ Mount
    \/ handleRefresh
    \/ \E req \in pending, callsData \in Responses : LoadSucceed(req, callsData)
    \/ \E req \in pending : LoadFail(req)
    \/ \E term \in SearchTerms : setSearchTerm(term)
    \/ \E status \in StatusFilters : setStatusFilter(status)
    \/ \E sentiment \in SentimentFilters : setSentimentFilter(sentiment)
    \/ clearFilters

Spec == Init /\ [][Next]_vars

----------------------------------------------------------------------------
(* getSentimentLevel on its own: one call per score *)

Scores == (0 - MaxScore)..MaxScore

InitClassify ==
    /\ calls = <<>>
    /\ isLoading = TRUE
    /\ isRefreshing = FALSE
    /\ searchTerm = <<>>
    /\ statusFilter = "all"
    /\ sentimentFilter = "all"
    /\ filteredCalls = <<>>
    /\ stats = EmptyStats
    /\ pending = {}
    /\ issued = 0
    /\ loads = NoLoads
    /\ score \in Scores
    /\ level = "none"
    /\ pc = "classify"
    /\ ViewsInitial
    /\ PagesInitial

Classify ==
    /\ pc = "classify"
    /\ level' = getSentimentLevel(score)
    /\ pc' = "done"
    /\ UNCHANGED <<viewVars, pageVars, loads, calls, isLoading, isRefreshing, searchTerm, statusFilter,
                   sentimentFilter, filteredCalls, stats, pending, issued,
                   score>>

NextClassify == Classify

SpecClassify == InitClassify /\ [][NextClassify]_vars

----------------------------------------------------------------------------
(* calculateCallStats on its own: one call per input sequence *)

SampleScores == {0 - 150, 0 - 30, 0 - 20, 0 - 19, 0, 19, 20, 50}

\* the input of length n whose i-th record has score and flag f[i]
StatsInput(n, f) == [i \in 1..n |-> Call(i, <<"1">>, f[i][1], f[i][2])]

InitStats ==
    /\ \E n \in 0..MaxLen : \E f \in [1..n -> SampleScores \X BOOLEAN] :
           calls = StatsInput(n, f)
    /\ isLoading = TRUE
    /\ isRefreshing = FALSE
    /\ searchTerm = <<>>
    /\ statusFilter = "all"
    /\ sentimentFilter = "all"
    /\ filteredCalls = <<>>
    /\ stats = EmptyStats
    /\ pending = {}
    /\ issued = 0
    /\ loads = NoLoads
    /\ score = 0
    /\ level = "none"
    /\ pc = "aggregate"
    /\ ViewsInitial
    /\ PagesInitial

Aggregate ==
    /\ pc = "aggregate"
    /\ stats' = calculateCallStats(calls)
    /\ pc' = "done"
    /\ UNCHANGED <<viewVars, pageVars, loads, calls, isLoading, isRefreshing, searchTerm, statusFilter,
                   sentimentFilter, filteredCalls, pending, issued,
                   score, level>>

NextStats == Aggregate

SpecStats == InitStats /\ [][NextStats]_vars

----------------------------------------------------------------------------
(* The Dashboard filter on its own: one evaluation per input and criteria *)

InitFilter ==
    /\ calls \in CallSeqs(MaxLen)
    /\ isLoading = FALSE
    /\ isRefreshing = FALSE
    /\ searchTerm \in SearchTerms
    /\ statusFilter \in StatusFilters
    /\ sentimentFilter \in SentimentFilters
    /\ filteredCalls = <<>>
    /\ stats = EmptyStats
    /\ pending = {}
    /\ issued = 0
    /\ loads = NoLoads
    /\ score = 0
    /\ level = "none"
    /\ pc = "filter"
    /\ ViewsInitial
    /\ PagesInitial

\* variant: the array is reversed in place while it is read
ArrayAfterReadReversed(cs) == [i \in 1..Len(cs) |-> cs[Len(cs) + 1 - i]]

\* the array a call of filter or reduce leaves behind: neither writes to it
ArrayAfterRead(cs) == cs

ApplyFilter ==
    /\ pc = "filter"
    /\ filteredCalls' = FilterCalls(calls, searchTerm, statusFilter, sentimentFilter)
    /\ calls' = ArrayAfterRead(calls)
    /\ pc' = "done"
    /\ UNCHANGED <<viewVars, pageVars, loads, isLoading, isRefreshing, searchTerm, statusFilter,
                   sentimentFilter, stats, pending, issued, score, level>>

\* calculateCallStats(filteredCalls), the second memo of the same render
AggregateFiltered ==
    /\ pc = "done"
    /\ stats' = calculateCallStats(filteredCalls)
    /\ filteredCalls' = ArrayAfterRead(filteredCalls)
    /\ pc' = "aggregated"
    /\ UNCHANGED <<viewVars, pageVars, loads, calls, isLoading, isRefreshing, searchTerm, statusFilter,
                   sentimentFilter, pending, issued, score, level>>

NextFilter == ApplyFilter \/ AggregateFiltered

SpecFilter == InitFilter /\ [][NextFilter]_vars

----------------------------------------------------------------------------
(* Ingestion: the Dashboard fed by a source that may send a null score *)

\* a stored record whose sentiment column is NULL
NullCall == Call(5, <<"1">>, NullScore, FALSE)

\* what getCalls hands to loadCalls: response.calls as received
ReceivedResponses ==
    { r \in SeqsUpTo(StoredCalls \cup {NullCall}, MaxCalls) :
        \A i, j \in 1..Len(r) : i # j => r[i].id # r[j].id }

NextIngest ==
    \/ Mount
    \/ handleRefresh
    \/ \E req \in pending, callsData \in ReceivedResponses : LoadSucceed(req, callsData)
    \/ \E req \in pending : LoadFail(req)
    \/ \E sentiment \in SentimentFilters : setSentimentFilter(sentiment)

SpecIngest == Init /\ [][NextIngest]_vars

----------------------------------------------------------------------------
(* CallForm *)

\* String.prototype.trim: leading and trailing white space removed
RECURSIVE trim(_)
trim(s) ==
    IF s = <<>> THEN s
    ELSE IF Head(s) = " " THEN trim(Tail(s))
    ELSE IF s[Len(s)] = " " THEN trim(SubSeq(s, 1, Len(s) - 1))
    ELSE s

\* the texts typed into phone, transcript and insight
FormTexts == {<<>>, <<" ">>, <<"1">>, <<" ", "1">>}

\* the sentiments handed to handleInputChange; the slider yields -1 .. 1
FormSentiments == {0 - 110, 0 - 100, 0, 100, 110}

\* variant: the texts are tested without trim
FormErrorsNoTrim(fd) ==
    (IF fd.phone = <<>> THEN {"phone"} ELSE {})
    \cup (IF fd.transcript = <<>> THEN {"transcript"} ELSE {})
    \cup (IF fd.insight = <<>> THEN {"insight"} ELSE {})
    \cup (IF fd.sentiment < 0 - 100 \/ fd.sentiment > 100 THEN {"sentiment"} ELSE {})

\* validateForm: the keys of newErrors
FormErrors(fd) ==
    (IF trim(fd.phone) = <<>> THEN {"phone"} ELSE {})
    \cup (IF trim(fd.transcript) = <<>> THEN {"transcript"} ELSE {})
    \cup (IF trim(fd.insight) = <<>> THEN {"insight"} ELSE {})
    \cup (IF fd.sentiment < 0 - 100 \/ fd.sentiment > 100 THEN {"sentiment"} ELSE {})

\* CallForm.handleInputChange(field, value)
handleInputChange(field, value) ==
    /\ value # callForm.formData[field]
    /\ callForm' = [callForm EXCEPT !.formData[field] = value,
                                    !.errors = @ \ {field},
                                    !.onSubmit = <<>>,
                                    !.event = "change"]
    /\ UNCHANGED <<pipelineVars, pageVars, callList, app>>

\* CallForm.handleSubmit: validateForm, then onSubmit(formData) if it passed
handleSubmit ==
    /\ callForm' = [callForm EXCEPT
                        !.errors = FormErrors(callForm.formData),
                        !.onSubmit = IF FormErrors(callForm.formData) = {}
                                     THEN <<callForm.formData>> ELSE <<>>,
                        !.event = "submit"]
    /\ UNCHANGED <<pipelineVars, pageVars, callList, app>>

\* the Dashboard idle while the add-call / search-by-phone application runs
PipelineInitial ==
    /\ calls = <<>>
    /\ isLoading = TRUE
    /\ isRefreshing = FALSE
    /\ searchTerm = <<>>
    /\ statusFilter = "all"
    /\ sentimentFilter = "all"
    /\ filteredCalls = <<>>
    /\ stats = EmptyStats
    /\ pending = {}
    /\ issued = 0
    /\ loads = NoLoads
    /\ score = 0
    /\ level = "none"
    /\ pc = "views"

InitForm == PipelineInitial /\ ViewsInitial /\ PagesInitial

NextForm ==
    \/ \E field \in {"phone", "transcript", "insight"}, value \in FormTexts :
           handleInputChange(field, value)
    \/ \E value \in FormSentiments : handleInputChange("sentiment", value)
    \/ \E value \in BOOLEAN : handleInputChange("solved", value)
    \/ handleSubmit

SpecForm == InitForm /\ [][NextForm]_vars

----------------------------------------------------------------------------
(* CallList *)

\* the texts typed into the phone search input
ListPhones == {<<>>, <<" ">>, <<"A">>, <<"A", " ">>, <<"1", "A">>}

\* POST /get_calls: the stored calls of one phone number
getCallsResponses(phone) ==
    { cs \in Responses : \A i \in 1..Len(cs) : cs[i].phone = phone }

\* the messages a failed request carries; "" is an error without a message
ErrorMessages == {"", "HTTP error! status: 500"}

\* CallList.handlePhoneChange
handlePhoneChange(value) ==
    /\ value # callList.phone
    /\ callList' =
         IF callList.hasSearched
         THEN [callList EXCEPT !.phone = value, !.calls = <<>>,
                               !.error = "null", !.hasSearched = FALSE]
         ELSE [callList EXCEPT !.phone = value]
    /\ UNCHANGED <<pipelineVars, pageVars, callForm, app>>

\* CallList.handleSearch up to the await; the submit button is disabled
\* while loading
handleSearch ==
    /\ ~callList.loading
    /\ callList.submits < MaxSearches
    /\ callList' =
         IF trim(callList.phone) = <<>>
         THEN [callList EXCEPT !.submits = @ + 1]
         ELSE [callList EXCEPT !.submits = @ + 1,
                               !.loading = TRUE,
                               !.error = "null",
                               !.hasSearched = TRUE,
                               !.request = [status |-> "pending",
                                            phone |-> trim(callList.phone),
                                            calls |-> <<>>]]
    /\ UNCHANGED <<pipelineVars, pageVars, callForm, app>>

\* CallList.handleSearch after the await: getCalls resolved
SearchSucceed(callsData) ==
    /\ callList.request.status = "pending"
    /\ callList' = [callList EXCEPT
                        !.calls = callsData,
                        !.loading = FALSE,
                        !.request = [status |-> "resolved",
                                     phone |-> callList.request.phone,
                                     calls |-> callsData]]
    /\ UNCHANGED <<pipelineVars, pageVars, callForm, app>>

\* variant: the catch block leaves the calls alone
SearchFailKeepsCalls(message) ==
    /\ callList.request.status = "pending"
    /\ callList' = [callList EXCEPT
                        !.error = IF message = "" THEN "Failed to fetch calls"
                                  ELSE message,
                        !.loading = FALSE,
                        !.request = [status |-> "rejected",
                                     phone |-> callList.request.phone,
                                     calls |-> <<>>]]
    /\ UNCHANGED <<pipelineVars, pageVars, callForm, app>>

\* CallList.handleSearch after the await: getCalls rejected
SearchFail(message) ==
    /\ callList.request.status = "pending"
    /\ callList' = [callList EXCEPT
                        !.error = IF message = "" THEN "Failed to fetch calls"
                                  ELSE message,
                        !.calls = <<>>,
                        !.loading = FALSE,
                        !.request = [status |-> "rejected",
                                     phone |-> callList.request.phone,
                                     calls |-> <<>>]]
    /\ UNCHANGED <<pipelineVars, pageVars, callForm, app>>

InitList == PipelineInitial /\ ViewsInitial /\ PagesInitial

NextList ==
    \/ \E value \in ListPhones : handlePhoneChange(value)
    \/ handleSearch
    \/ \E callsData \in getCallsResponses(callList.request.phone) :
           SearchSucceed(callsData)
    \/ \E message \in ErrorMessages : SearchFail(message)

SpecList == InitList /\ [][NextList]_vars

----------------------------------------------------------------------------
(* App *)

Tabs == {"add", "search"}

\* App.handleCallSubmit up to the await; CallForm is rendered on the add
\* tab only and its submit button is disabled while isSubmitting
handleCallSubmit ==
    /\ app.currentTab = "add"
    /\ ~app.isSubmitting
    /\ app.submits < MaxSubmits
    /\ app' = [app EXCEPT !.isSubmitting = TRUE,
                          !.submitMessage = "null",
                          !.save = "pending",
                          !.submits = @ + 1]
    /\ UNCHANGED <<pipelineVars, pageVars, callForm, callList>>

\* variant: no setTimeout after the success message
SaveSucceedNoTimer ==
    /\ app.save = "pending"
    /\ app' = [app EXCEPT !.submitMessage = "success",
                          !.isSubmitting = FALSE,
                          !.save = "resolved"]
    /\ UNCHANGED <<pipelineVars, pageVars, callForm, callList>>

\* App.handleCallSubmit after the await: saveCall resolved
SaveSucceed ==
    /\ app.save = "pending"
    /\ app' = [app EXCEPT !.submitMessage = "success",
                          !.timers = @ + 1,
                          !.isSubmitting = FALSE,
                          !.save = "resolved"]
    /\ UNCHANGED <<pipelineVars, pageVars, callForm, callList>>

\* App.handleCallSubmit after the await: saveCall rejected
SaveFail ==
    /\ app.save = "pending"
    /\ app' = [app EXCEPT !.submitMessage = "error",
                          !.isSubmitting = FALSE,
                          !.save = "rejected"]
    /\ UNCHANGED <<pipelineVars, pageVars, callForm, callList>>

\* the callback handed to setTimeout, two seconds after a successful save
TimerFires ==
    /\ app.timers > 0
    /\ app' = [app EXCEPT !.currentTab = "search", !.timers = @ - 1]
    /\ UNCHANGED <<pipelineVars, pageVars, callForm, callList>>

\* App.handleTabChange
handleTabChange(tab) ==
    /\ app' = [app EXCEPT !.currentTab = tab, !.submitMessage = "null"]
    /\ UNCHANGED <<pipelineVars, pageVars, callForm, callList>>

InitApp == PipelineInitial /\ ViewsInitial /\ PagesInitial

NextApp ==
    \/ handleCallSubmit
    \/ SaveSucceed
    \/ SaveFail
    \/ TimerFires
    \/ \E tab \in Tabs : handleTabChange(tab)

\* a timeout that was set does run
SpecApp == InitApp /\ [][NextApp]_vars /\ WF_vars(TimerFires)

----------------------------------------------------------------------------
(* Competitors *)

\* GET /api/v1/competitors/alerts: alerts 1..n, each read or unread
AlertLists ==
    UNION { { [i \in 1..n |-> [id |-> i, is_read |-> f[i]]] :
              f \in [1..n -> BOOLEAN] } : n \in 0..MaxAlerts }

\* alerts.map(alert => alert.id === alertId ? {...alert, is_read: true} : alert)
MarkRead(alerts, alertId) ==
    [i \in 1..Len(alerts) |->
        IF alerts[i].id = alertId THEN [alerts[i] EXCEPT !.is_read = TRUE]
        ELSE alerts[i]]

\* Competitors.fetchData after the await: both requests resolved
FetchDataSucceed(alertsData) ==
    /\ competitors.loading
    /\ competitors' = [competitors EXCEPT !.alerts = alertsData,
                                          !.loading = FALSE]
    /\ UNCHANGED <<pipelineVars, viewVars, chart, index, loginForm>>

\* Competitors.fetchData after the await: a request rejected
FetchDataFail ==
    /\ competitors.loading
    /\ competitors' = [competitors EXCEPT
                           !.error = "Failed to load competitor data",
                           !.loading = FALSE]
    /\ UNCHANGED <<pipelineVars, viewVars, chart, index, loginForm>>

\* Competitors.handleMarkAsRead up to the await; the button is rendered for
\* the unread alerts, and the handler closes over the alerts of that render
handleMarkAsRead(alertId) ==
    /\ ~competitors.loading
    /\ competitors.clicks < MaxMarks
    /\ \E i \in 1..Len(competitors.alerts) :
           competitors.alerts[i].id = alertId /\ ~competitors.alerts[i].is_read
    /\ competitors' = [competitors EXCEPT
                           !.clicks = @ + 1,
                           !.marks = @ \cup {[alertId |-> alertId,
                                              alerts |-> competitors.alerts,
                                              click |-> competitors.clicks + 1]}]
    /\ UNCHANGED <<pipelineVars, viewVars, chart, index, loginForm>>

\* Competitors.handleMarkAsRead after the await: markAlertAsRead resolved
MarkSucceed(req) ==
    /\ req \in competitors.marks
    /\ competitors' = [competitors EXCEPT
                           !.alerts = MarkRead(req.alerts, req.alertId),
                           !.marks = @ \ {req},
                           !.marked = @ \cup {req.alertId}]
    /\ UNCHANGED <<pipelineVars, viewVars, chart, index, loginForm>>

\* Competitors.handleMarkAsRead after the await: markAlertAsRead rejected
MarkFail(req) ==
    /\ req \in competitors.marks
    /\ competitors' = [competitors EXCEPT
                           !.error = "Failed to mark alert as read",
                           !.marks = @ \ {req}]
    /\ UNCHANGED <<pipelineVars, viewVars, chart, index, loginForm>>

InitAlerts == PipelineInitial /\ ViewsInitial /\ PagesInitial

NextAlerts ==
    \/ \E alertsData \in AlertLists : FetchDataSucceed(alertsData)
    \/ FetchDataFail
    \/ \E alertId \in 1..MaxAlerts : handleMarkAsRead(alertId)
    \/ \E req \in competitors.marks : MarkSucceed(req)
    \/ \E req \in competitors.marks : MarkFail(req)

SpecAlerts == InitAlerts /\ [][NextAlerts]_vars

----------------------------------------------------------------------------
(* SentimentChart *)

\* .slice(-7)
TrendDays == 7

\* the locales of the runtime: month first, day first
Locales == {"en-US", "en-GB"}

\* the calendar days of created_at, all of one year
ChartDays == [month : 1..3, day : 1..3]

\* new Date(created_at).toLocaleDateString(): the numbers of the date string
toLocaleDateString(date, locale) ==
    IF locale = "en-US" THEN <<date.month, date.day>>
    ELSE <<date.day, date.month>>

\* new Date(dateString).getTime(): the first number is read as the month
DateParseTime(dateString) == dateString[1] * 100 + dateString[2]

\* variant: the neutral calls are not counted
sentimentDataDropsNeutral(cs) ==
    LET distribution ==
            Distribution(cs, [positive |-> 0, neutral |-> 0, negative |-> 0])
    IN  [Positive |-> distribution.positive,
         Neutral |-> 0,
         Negative |-> distribution.negative]

\* SentimentChart.sentimentData: the values of the three slices
sentimentData(cs) ==
    LET distribution ==
            Distribution(cs, [positive |-> 0, neutral |-> 0, negative |-> 0])
    IN  [Positive |-> distribution.positive,
         Neutral |-> distribution.neutral,
         Negative |-> distribution.negative]

\* calls.reduce into groupedByDay; Object.values keeps the insertion order
RECURSIVE groupedByDay(_, _, _)
groupedByDay(cs, locale, acc) ==
    IF cs = <<>> THEN acc
    ELSE LET date == toLocaleDateString(Head(cs).created_at, locale)
             s == Head(cs).sentiments
         IN  IF \E j \in 1..Len(acc) : acc[j].date = date
             THEN groupedByDay(Tail(cs), locale,
                      [j \in 1..Len(acc) |->
                          IF acc[j].date = date
                          THEN [acc[j] EXCEPT !.sentiments = Append(@, s)]
                          ELSE acc[j]])
             ELSE groupedByDay(Tail(cs), locale,
                      Append(acc, [date |-> date, sentiments |-> <<s>>]))

RECURSIVE SumScores(_)
SumScores(sentiments) ==
    IF sentiments = <<>> THEN 0
    ELSE ToNumber(Head(sentiments)) + SumScores(Tail(sentiments))

\* (x).toFixed(1) of a / b, in tenths
ToFixed1(a, b) ==
    IF a >= 0 THEN (20 * a + b) \div (2 * b)
    ELSE 0 - ((20 * (0 - a) + b) \div (2 * b))

\* .map(({ sentiments, date }) => ({ date, sentiment, calls }))
TrendEntry(group) ==
    [date |-> group.date,
     sentiment |-> ToFixed1(SumScores(group.sentiments), Len(group.sentiments)),
     calls |-> Len(group.sentiments)]

\* one step of the stable sort: e goes after the entries not later than it
InsertByTime(e, sorted) ==
    LET k == Cardinality({j \in 1..Len(sorted) :
                 DateParseTime(sorted[j].date) <= DateParseTime(e.date)})
    IN  SubSeq(sorted, 1, k) \o <<e>> \o SubSeq(sorted, k + 1, Len(sorted))

\* .sort((a, b) => new Date(a.date).getTime() - new Date(b.date).getTime())
RECURSIVE SortByTime(_)
SortByTime(entries) ==
    IF entries = <<>> THEN <<>>
    ELSE InsertByTime(entries[Len(entries)],
                      SortByTime(SubSeq(entries, 1, Len(entries) - 1)))

\* SentimentChart.trendData
trendData(cs, locale) ==
    IF Len(cs) = 0 THEN <<>>
    ELSE LET groups == groupedByDay(cs, locale, <<>>)
             entries == [j \in 1..Len(groups) |-> TrendEntry(groups[j])]
             sorted == SortByTime(entries)
         IN  SubSeq(sorted,
                    IF Len(sorted) > TrendDays THEN Len(sorted) - TrendDays + 1
                    ELSE 1,
                    Len(sorted))

\* the scores of the chart inputs, in the order they are dealt
ChartScores == <<0 - 150, 0 - 30, 0 - 20, 0 - 19, 0, 19, 20, 50>>

\* the k-th calendar day, k in 0 .. 8
DayAt(k) == [month |-> (k \div 3) + 1, day |-> (k % 3) + 1]

\* the input of n calls whose days start at one day and advance by stride
ChartInput(n, start, stride) ==
    [i \in 1..n |->
        [id |-> i, phone |-> <<"1">>,
         sentiments |-> ChartScores[((start + i) % Len(ChartScores)) + 1],
         solved |-> FALSE,
         created_at |-> DayAt((start + (i - 1) * stride) % 9)]]

InitChart ==
    /\ \E n \in 0..MaxChartCalls, start \in 0..8, stride \in 0..8 :
           /\ calls = ChartInput(n, start, stride)
           /\ filteredCalls = calls
    /\ \E locale \in Locales : chart = [InitialChart EXCEPT !.locale = locale]
    /\ isLoading = FALSE
    /\ isRefreshing = FALSE
    /\ searchTerm = <<>>
    /\ statusFilter = "all"
    /\ sentimentFilter = "all"
    /\ stats = EmptyStats
    /\ pending = {}
    /\ issued = 0
    /\ loads = NoLoads
    /\ score = 0
    /\ level = "none"
    /\ pc = "chart"
    /\ ViewsInitial
    /\ competitors = InitialCompetitors
    /\ index = InitialIndex
    /\ loginForm = InitialLoginForm

\* one render of the Dashboard body: the stats and the chart of filteredCalls
RenderChart ==
    /\ pc = "chart"
    /\ stats' = calculateCallStats(filteredCalls)
    /\ chart' = [locale |-> chart.locale,
                 sentimentData |-> sentimentData(filteredCalls),
                 trendData |-> trendData(filteredCalls, chart.locale)]
    /\ pc' = "charted"
    /\ UNCHANGED <<viewVars, competitors, index, loginForm, loads,
                   calls, isLoading, isRefreshing, searchTerm, statusFilter,
                   sentimentFilter, filteredCalls, pending, issued,
                   score, level>>

NextChart == RenderChart

SpecChart == InitChart /\ [][NextChart]_vars

----------------------------------------------------------------------------
(* LoginForm *)

\* {10,} of phoneRegex
MinPhoneLen == 10

PhoneChars == {"+", "1", " ", "-", "a"}

\* n copies of the character c
Repeat(c, n) == [i \in 1..n |-> c]

\* the texts typed into the phone input: a few characters, a run of one
\* character about as long as phoneRegex asks for, and at most one more
LoginPhones ==
    { head \o Repeat(c, n) \o tail :
        head \in SeqsUpTo(PhoneChars, MaxAffix),
        c \in {"1", "-"},
        n \in {0, MinPhoneLen - 2, MinPhoneLen - 1, MinPhoneLen},
        tail \in SeqsUpTo(PhoneChars, 1) }

\* /^\+?[\d\s\-\(\)]{10,}$/.test(phone.trim())
validatePhoneNumber(phone) ==
    LET t == trim(phone)
        body == IF t # <<>> /\ Head(t) = "+" THEN Tail(t) ELSE t
    IN  /\ Len(body) >= MinPhoneLen
        /\ \A k \in 1..Len(body) : body[k] \in {"1", " ", "-", "(", ")"}

\* phone.replace(/[^\d+]/g, '')
RECURSIVE Cleaned(_)
Cleaned(phone) ==
    IF phone = <<>> THEN <<>>
    ELSE IF Head(phone) \in {"1", "+"} THEN <<Head(phone)>> \o Cleaned(Tail(phone))
    ELSE Cleaned(Tail(phone))

\* variant: no '+' is put in front
formatPhoneNumberNoPlus(phone) == Cleaned(phone)

\* formatPhoneNumber
formatPhoneNumber(phone) ==
    LET cleaned == Cleaned(phone)
    IN  IF cleaned # <<>> /\ Head(cleaned) = "+" THEN cleaned
        ELSE <<"+">> \o cleaned

\* LoginForm.handlePhoneChange; the input is disabled while isLoading
LoginFormHandlePhoneChange(value) ==
    /\ value # loginForm.phone
    /\ loginForm' = [loginForm EXCEPT !.phone = value,
                                      !.validationError = "null",
                                      !.onLogin = <<>>,
                                      !.event = "change"]
    /\ UNCHANGED <<pipelineVars, viewVars, chart, competitors, index>>

\* LoginForm.handleSubmit
LoginFormHandleSubmit ==
    /\ LET trimmedPhone == trim(loginForm.phone)
       IN  loginForm' =
             IF trimmedPhone = <<>>
             THEN [loginForm EXCEPT
                       !.validationError = "Please enter a phone number",
                       !.onLogin = <<>>,
                       !.event = "submit"]
             ELSE IF ~validatePhoneNumber(trimmedPhone)
             THEN [loginForm EXCEPT
                       !.validationError = "Please enter a valid phone number",
                       !.onLogin = <<>>,
                       !.event = "submit"]
             ELSE [loginForm EXCEPT
                       !.validationError = "null",
                       !.onLogin = <<formatPhoneNumber(trimmedPhone)>>,
                       !.event = "submit"]
    /\ UNCHANGED <<pipelineVars, viewVars, chart, competitors, index>>

InitLogin == PipelineInitial /\ ViewsInitial /\ PagesInitial

NextLogin ==
    \/ \E value \in LoginPhones : LoginFormHandlePhoneChange(value)
    \/ LoginFormHandleSubmit

SpecLogin == InitLogin /\ [][NextLogin]_vars

----------------------------------------------------------------------------
(* Index *)

\* the phones LoginForm hands to onLogin
IndexPhones ==
    { formatPhoneNumber(Repeat("1", MinPhoneLen)),
      formatPhoneNumber(<<"+">> \o Repeat("1", MinPhoneLen + 1)),
      formatPhoneNumber(<<"1", " ">> \o Repeat("1", MinPhoneLen)),
      formatPhoneNumber(Repeat("-", MinPhoneLen)) }

\* the messages of the ApiError a failed getCalls throws
ApiErrorMessages ==
    {"HTTP error! status: 500", "Failed to fetch", "An unexpected error occurred"}

\* what Index renders
IndexShows(ix) ==
    IF ix.isLoggedIn /\ ix.userPhone # <<>> THEN "Dashboard" ELSE "LoginForm"

\* Index.handleLogin up to the await; LoginForm is rendered while the
\* Dashboard is not, its submit button is disabled while isLoading
handleLogin(phone) ==
    /\ IndexShows(index) = "LoginForm"
    /\ ~index.isLoading
    /\ index.attempts < MaxLogins
    /\ index' = [index EXCEPT !.isLoading = TRUE,
                              !.loginError = "null",
                              !.request = [status |-> "pending", phone |-> phone],
                              !.attempts = @ + 1]
    /\ UNCHANGED <<pipelineVars, viewVars, chart, competitors, loginForm>>

\* Index.handleLogin after the await: getCalls resolved
LoginSucceed ==
    /\ index.request.status = "pending"
    /\ index' = [index EXCEPT !.userPhone = index.request.phone,
                              !.isLoggedIn = TRUE,
                              !.isLoading = FALSE,
                              !.request.status = "resolved"]
    /\ UNCHANGED <<pipelineVars, viewVars, chart, competitors, loginForm>>

\* variant: the catch block logs in as well
LoginFailLogsIn(message) ==
    /\ index.request.status = "pending"
    /\ index' = [index EXCEPT !.loginError = message,
                              !.isLoggedIn = TRUE,
                              !.isLoading = FALSE,
                              !.request.status = "rejected"]
    /\ UNCHANGED <<pipelineVars, viewVars, chart, competitors, loginForm>>

\* Index.handleLogin after the await: getCalls rejected
LoginFail(message) ==
    /\ index.request.status = "pending"
    /\ index' = [index EXCEPT !.loginError = message,
                              !.isLoading = FALSE,
                              !.request.status = "rejected"]
    /\ UNCHANGED <<pipelineVars, viewVars, chart, competitors, loginForm>>

\* Index.handleLogout, the onLogout of the Dashboard
handleLogout ==
    /\ IndexShows(index) = "Dashboard"
    /\ index' = [index EXCEPT !.isLoggedIn = FALSE,
                              !.userPhone = <<>>,
                              !.loginError = "null"]
    /\ UNCHANGED <<pipelineVars, viewVars, chart, competitors, loginForm>>

InitIndex == PipelineInitial /\ ViewsInitial /\ PagesInitial

NextIndex ==
    \/ \E phone \in IndexPhones : handleLogin(phone)
    \/ LoginSucceed
    \/ \E message \in ApiErrorMessages : LoginFail(message)
    \/ handleLogout

SpecIndex == InitIndex /\ [][NextIndex]_vars

----------------------------------------------------------------------------
(* Properties *)

\* the positions of cs whose record satisfies P
Positions(cs, P(_)) == {i \in 1..Len(cs) : P(cs[i])}

\* C1: getSentimentLevel returns exactly one band for every score, also
\* outside [-1, 1]: positive iff score >= 0.2, negative iff score <= -0.2,
\* neutral otherwise; 0.2 is positive and -0.2 is negative.
C1_ClassifierBands ==
    pc = "done" =>
        /\ level \in SentimentLevels
        /\ (level = "positive") <=> (score >= 20)
        /\ (level = "negative") <=> (score <= 0 - 20)
        /\ (level = "neutral") <=> (score > 0 - 20 /\ score < 20)
        /\ score = 20 => level = "positive"
        /\ score = 0 - 20 => level = "negative"

C1_Witness == pc = "done" /\ score = 20 /\ level = "positive"

\* C2: a record is in filteredCalls iff its phone matches the search text,
\* its solved flag matches the status filter and its band matches the
\* sentiment filter, all three at once.
C2_FilterIsConjunction ==
    /\ \A i \in 1..Len(calls) :
          (\E j \in 1..Len(filteredCalls) : filteredCalls[j] = calls[i])
          <=>
          /\ \/ searchTerm = <<>>
             \/ includes(toLowerCase(calls[i].phone), toLowerCase(searchTerm))
          /\ \/ statusFilter = "all"
             \/ statusFilter = "solved" /\ calls[i].solved = TRUE
             \/ statusFilter = "unsolved" /\ calls[i].solved = FALSE
          /\ \/ sentimentFilter = "all"
             \/ sentimentFilter = "positive" /\ calls[i].sentiments >= 20
             \/ sentimentFilter = "negative" /\ calls[i].sentiments <= 0 - 20
             \/ sentimentFilter = "neutral" /\ calls[i].sentiments > 0 - 20
                                           /\ calls[i].sentiments < 20
    /\ \A j \in 1..Len(filteredCalls) :
          \E i \in 1..Len(calls) : calls[i] = filteredCalls[j]

C2_Witness ==
    /\ Len(calls) = 2
    /\ searchTerm = <<"A">>
    /\ statusFilter = "unsolved"
    /\ sentimentFilter = "negative"
    /\ Len(filteredCalls) = 1
    /\ filteredCalls[1].id = 2

\* C3: in every state the displayed statistics are calculateCallStats of the
\* currently filtered calls, and the list and chart get that same sequence.
C3_StatsOverCurrentFilter ==
    /\ filteredCalls = FilterCalls(calls, searchTerm, statusFilter, sentimentFilter)
    /\ stats = calculateCallStats(
                   FilterCalls(calls, searchTerm, statusFilter, sentimentFilter))

C3_Witness ==
    /\ issued = 2
    /\ pending = {}
    /\ Len(calls) = 2
    /\ Len(filteredCalls) = 1
    /\ stats.total = 1
    /\ statusFilter = "solved"
    /\ sentimentFilter = "neutral"

\* C4: the three band counts sum to total = length(R), and each band count
\* is the number of records whose score falls in that band.
C4_DistributionSumsToTotal ==
    pc = "done" =>
        LET d == stats.sentimentDistribution
            IsPositive(c) == c.sentiments >= 20
            IsNegative(c) == c.sentiments <= 0 - 20
            IsNeutral(c) == c.sentiments > 0 - 20 /\ c.sentiments < 20
        IN  /\ d.positive + d.neutral + d.negative = stats.total
            /\ stats.total = Len(calls)
            /\ d.positive = Cardinality(Positions(calls, IsPositive))
            /\ d.negative = Cardinality(Positions(calls, IsNegative))
            /\ d.neutral = Cardinality(Positions(calls, IsNeutral))

C4_Witness ==
    /\ pc = "done"
    /\ stats.total = 3
    /\ stats.sentimentDistribution = [positive |-> 1, neutral |-> 1, negative |-> 1]

\* C5: solved is the number of records with solved = true, and
\* solved + unsolved = total.
C5_SolvedPlusUnsolved ==
    pc = "done" =>
        LET IsSolved(c) == c.solved = TRUE
        IN  /\ stats.solved = Cardinality(Positions(calls, IsSolved))
            /\ stats.solved + stats.unsolved = stats.total

C5_Witness ==
    pc = "done" /\ stats.total = 3 /\ stats.solved = 2 /\ stats.unsolved = 1

\* C6: on the empty sequence calculateCallStats returns all zeros.
C6_EmptyStats ==
    (pc = "done" /\ calls = <<>>) =>
        stats = [total |-> 0, solved |-> 0, unsolved |-> 0,
                 averageSentiment |-> [num |-> 0, den |-> 1],
                 sentimentDistribution |->
                     [positive |-> 0, neutral |-> 0, negative |-> 0]]

C6_Witness == pc = "done" /\ calls = <<>> /\ stats.total = 0

\* the sum of the scores at positions 1..n of cs
RECURSIVE ScoreTotal(_, _)
ScoreTotal(cs, n) == IF n = 0 THEN 0 ELSE ScoreTotal(cs, n - 1) + cs[n].sentiments

\* C7: averageSentiment is the sum of the scores divided by the number of
\* records for a non-empty sequence, and 0 with no division for the empty one.
C7_AverageIsMean ==
    pc = "done" =>
        LET avg == stats.averageSentiment
        IN  /\ avg.den > 0
            /\ Len(calls) > 0 =>
                   avg.num * Len(calls) = ScoreTotal(calls, Len(calls)) * avg.den
            /\ Len(calls) = 0 => avg = [num |-> 0, den |-> 1]

C7_Witness ==
    /\ pc = "done"
    /\ Len(calls) = 3
    /\ calls[1].sentiments = 50
    /\ calls[2].sentiments = 0 - 30
    /\ calls[3].sentiments = 0
    /\ stats.averageSentiment = [num |-> 20, den |-> 3]

\* C8: with empty search text and both filters 'all' the filter returns the
\* input unchanged; a dimension set to 'all' removes no record by itself.
C8_AllIsPassThrough ==
    LET Kept(c) == \E j \in 1..Len(filteredCalls) : filteredCalls[j] = c
        SearchOk(c) ==
            searchTerm = <<>> \/ includes(toLowerCase(c.phone), toLowerCase(searchTerm))
        StatusOk(c) ==
            statusFilter = "all" \/ (statusFilter = "solved") = c.solved
        SentimentOk(c) ==
            sentimentFilter = "all" \/ getSentimentLevel(c.sentiments) = sentimentFilter
    IN  pc = "done" =>
        /\ (searchTerm = <<>> /\ statusFilter = "all" /\ sentimentFilter = "all")
               => filteredCalls = calls
        /\ statusFilter = "all" =>
               \A i \in 1..Len(calls) :
                   (SearchOk(calls[i]) /\ SentimentOk(calls[i])) => Kept(calls[i])
        /\ sentimentFilter = "all" =>
               \A i \in 1..Len(calls) :
                   (SearchOk(calls[i]) /\ StatusOk(calls[i])) => Kept(calls[i])

C8_Witness ==
    /\ pc = "done"
    /\ Len(calls) = 3
    /\ searchTerm = <<>>
    /\ statusFilter = "all"
    /\ sentimentFilter = "all"
    /\ filteredCalls = calls

\* C9: the filter output is a subsequence of the input: only input records,
\* none more often than in the input, kept records in their input order.
C9_OutputIsSubsequence ==
    pc = "done" =>
    \E f \in [1..Len(filteredCalls) -> 1..Len(calls)] :
        /\ \A j \in 1..Len(filteredCalls) : filteredCalls[j] = calls[f[j]]
        /\ \A j, k \in 1..Len(filteredCalls) : j < k => f[j] < f[k]

C9_Witness ==
    /\ pc = "done"
    /\ Len(calls) = 3
    /\ Len(filteredCalls) = 2
    /\ filteredCalls[1] = calls[1]
    /\ filteredCalls[2] = calls[3]

\* C10: filtering the filtered calls again with the same criteria changes
\* nothing.
C10_FilterIdempotent ==
    pc = "done" =>
    FilterCalls(filteredCalls, searchTerm, statusFilter, sentimentFilter)
        = filteredCalls

C10_Witness ==
    /\ pc = "done"
    /\ Len(calls) = 3
    /\ Len(filteredCalls) = 2
    /\ searchTerm # <<>>
    /\ sentimentFilter # "all"

\* C11: a search text that is empty or only whitespace filters nothing:
\* every record passes the search criterion whatever its phone is.
C11_BlankSearchPassesAll ==
    LET Kept(c) == \E j \in 1..Len(filteredCalls) : filteredCalls[j] = c
        IsBlank(t) == \A k \in 1..Len(t) : t[k] = " "
        StatusOk(c) ==
            statusFilter = "all" \/ (statusFilter = "solved") = c.solved
        SentimentOk(c) ==
            sentimentFilter = "all" \/ getSentimentLevel(c.sentiments) = sentimentFilter
    IN  (pc = "done" /\ IsBlank(searchTerm)) =>
            \A i \in 1..Len(calls) :
                (StatusOk(calls[i]) /\ SentimentOk(calls[i])) => Kept(calls[i])

\* C12: for a non-empty search text a record passes the search criterion
\* iff the text occurs as a contiguous substring of its phone, compared
\* without regard to case.
C12_SearchIsSubstringIgnoringCase ==
    LET Kept(c) == \E j \in 1..Len(filteredCalls) : filteredCalls[j] = c
        SameLetter(a, b) == a = b \/ {a, b} = {"a", "A"}
        Occurs(t, ph) ==
            \E off \in 0..(Len(ph) - Len(t)) :
                \A k \in 1..Len(t) : SameLetter(ph[off + k], t[k])
        StatusOk(c) ==
            statusFilter = "all" \/ (statusFilter = "solved") = c.solved
        SentimentOk(c) ==
            sentimentFilter = "all" \/ getSentimentLevel(c.sentiments) = sentimentFilter
    IN  (pc = "done" /\ searchTerm # <<>>) =>
            \A i \in 1..Len(calls) :
                (StatusOk(calls[i]) /\ SentimentOk(calls[i])) =>
                    (Kept(calls[i]) <=> Occurs(searchTerm, calls[i].phone))

C12_Witness ==
    /\ pc = "done"
    /\ searchTerm = <<"a">>
    /\ statusFilter = "all"
    /\ sentimentFilter = "all"
    /\ Len(calls) = 3
    /\ Len(filteredCalls) = 2
    /\ \E i \in 1..3 : calls[i].phone = <<"1", "A">> /\ filteredCalls[1] = calls[i]

\* C13: a record whose sentiment score is not a well-formed number is
\* rejected at ingestion: it never reaches the filter, the classifier or
\* calculateCallStats, and no statistics are produced from it.
C13_MalformedRejected ==
    /\ \A i \in 1..Len(calls) : calls[i].sentiments # NullScore
    /\ \A j \in 1..Len(filteredCalls) : filteredCalls[j].sentiments # NullScore
    /\ stats.total =
           Cardinality({j \in 1..Len(filteredCalls) :
                            filteredCalls[j].sentiments # NullScore})

\* C14: filtering, aggregation and classification leave their input as it
\* was: same records, same field values, same order.
C14_InputUnchanged ==
    [][/\ (pc = "filter" /\ pc' = "done") => calls' = calls
       /\ (pc = "done" /\ pc' = "aggregated") =>
              (calls' = calls /\ filteredCalls' = filteredCalls)]_vars

C14_Witness ==
    /\ pc = "aggregated"
    /\ Len(calls) = 3
    /\ Len(filteredCalls) = 2
    /\ stats.total = 2
    /\ stats.sentimentDistribution.positive = 1

\* C15: every view labels a score with the band getSentimentLevel gives it
\* (positive at >= 0.2, negative at <= -0.2, neutral otherwise).
C15_OneSetOfThresholds ==
    pc = "done" =>
        LET band == IF level = "positive" THEN "Positive"
                    ELSE IF level = "negative" THEN "Negative"
                    ELSE "Neutral"
        IN  /\ getSentimentLabel(score) = band
            /\ CallCardSentimentLabel(score) = band
            /\ CallsPageSentimentLabel(score) = band

\* C16: with no records aggregated (total = 0) the overview derives no
\* sentiment trend from the averageSentiment value 0.
C16_NoTrendWithoutData ==
    stats.total = 0 =>
        AvgSentimentCard(stats, isLoading) \notin {"Positive trend", "Needs attention"}

\* C17: on every submit CallForm invokes onSubmit iff phone, transcript and
\* insight are non-blank and the sentiment lies in [-1, 1]; otherwise an
\* error entry is recorded for every invalid field.
C17_SubmitOnlyValid ==
    callForm.event = "submit" =>
        LET fd == callForm.formData
            NonBlank(t) == \E k \in 1..Len(t) : t[k] # " "
            FieldOk(f) ==
                IF f = "sentiment" THEN fd.sentiment >= 0 - 100 /\ fd.sentiment <= 100
                ELSE NonBlank(fd[f])
            Checked == {"phone", "transcript", "insight", "sentiment"}
        IN  /\ (callForm.onSubmit # <<>>) <=> (\A f \in Checked : FieldOk(f))
            /\ callForm.onSubmit # <<>> => callForm.onSubmit = <<fd>>
            /\ \A f \in Checked : ~FieldOk(f) => f \in callForm.errors

C17_Witness ==
    /\ callForm.event = "submit"
    /\ callForm.formData.phone = <<" ", "1">>
    /\ callForm.formData.sentiment = 0 - 100
    /\ callForm.onSubmit = <<callForm.formData>>
    /\ callForm.errors = {}

\* C18: a non-empty displayed calls list is always the result of a search
\* for the phone currently in the input, also when the input is edited
\* while a request is in flight.
C18_ResultsMatchInput ==
    callList.calls # <<>> =>
        /\ callList.request.status = "resolved"
        /\ callList.request.calls = callList.calls
        /\ callList.request.phone = trim(callList.phone)

\* C19: a submit with a blank phone issues no request and changes no state;
\* a failed request leaves calls empty and error holding a message; after
\* any request completes loading is false.
C19_SearchOutcomes ==
    [][ /\ (callList'.submits # callList.submits
              /\ \A k \in 1..Len(callList.phone) : callList.phone[k] = " ")
           => callList' = [callList EXCEPT !.submits = callList'.submits]
        /\ (callList.request.status = "pending"
              /\ callList'.request.status = "rejected")
           => /\ callList'.calls = <<>>
              /\ callList'.error \notin {"null", ""}
        /\ (callList.request.status = "pending"
              /\ callList'.request.status # "pending")
           => ~callList'.loading ]_vars

C19_Witness ==
    /\ callList.request.status = "rejected"
    /\ callList.calls = <<>>
    /\ callList.error = "Failed to fetch calls"
    /\ ~callList.loading
    /\ callList.hasSearched
    /\ callList.submits = 3

\* C20: a successful save sets a success message and isSubmitting to false,
\* and the tab eventually becomes 'search'; a failed save sets an error
\* message and isSubmitting to false and does not switch the tab.
C20_SaveOutcomes ==
    /\ [][ /\ (app.save = "pending" /\ app'.save = "resolved")
              => /\ app'.submitMessage = "success"
                 /\ ~app'.isSubmitting
           /\ (app.save = "pending" /\ app'.save = "rejected")
              => /\ app'.submitMessage = "error"
                 /\ ~app'.isSubmitting
                 /\ app'.currentTab = app.currentTab
                 /\ app'.timers = app.timers ]_vars
    /\ (app.submitMessage = "success") ~> (app.currentTab = "search")

C20_Witness ==
    /\ app.save = "resolved"
    /\ app.submitMessage = "success"
    /\ app.currentTab = "search"
    /\ ~app.isSubmitting
    /\ app.timers = 0
    /\ app.submits = 1

\* C21: while a refresh request is in flight isRefreshing is true, so at
\* most one refresh request is outstanding, also when the initial load is in
\* flight or completes meanwhile.
C21_OneRefreshOutstanding ==
    LET refreshes == {req \in pending : req.isRefresh}
    IN  /\ refreshes # {} => isRefreshing
        /\ Cardinality(refreshes) <= 1

\* C22: the response of an earlier load request never overwrites the
\* response of a later one, so that once all requests have succeeded the
\* calls shown are the response to the latest request.
C22_LatestResponseShown ==
    [][loads'.shown >= loads.shown]_vars

\* C23: a failed load request leaves calls, the search text and both filters
\* as they were; after any load request completes isLoading is false.
C23_LoadOutcomes ==
    [][ Cardinality(pending') < Cardinality(pending)
        => /\ ~isLoading'
           /\ loads'.outcome = "rejected"
              => /\ calls' = calls
                 /\ searchTerm' = searchTerm
                 /\ statusFilter' = statusFilter
                 /\ sentimentFilter' = sentimentFilter ]_vars

C23_Witness ==
    /\ loads.outcome = "rejected"
    /\ loads.shown = 1
    /\ pending = {}
    /\ calls # <<>>
    /\ searchTerm # <<>>
    /\ sentimentFilter # "all"
    /\ ~isLoading

\* C24: once markAlertAsRead has succeeded for an alert it stays shown as
\* read, whatever the interleaving of the handleMarkAsRead calls; a failed
\* request leaves the alerts unchanged.
C24_MarkedStaysRead ==
    \A i \in 1..Len(competitors.alerts) :
        competitors.alerts[i].id \in competitors.marked
            => competitors.alerts[i].is_read

C28_TrendPerDay ==
    pc = "charted" =>
        LET days == {filteredCalls[i].created_at : i \in 1..Len(filteredCalls)}
            trend == chart.trendData
            Rank(d) == d.month * 100 + d.day
            DayOf(e) == CHOOSE d \in ChartDays :
                            toLocaleDateString(d, chart.locale) = e.date
            later(d) == {x \in days : Rank(x) > Rank(d)}
            recent == {d \in days : Cardinality(later(d)) < TrendDays}
        IN  /\ Len(trend) = Cardinality(recent)
            /\ {DayOf(trend[j]) : j \in 1..Len(trend)} = recent
            /\ \A j \in 1..Len(trend) - 1 :
                   Rank(DayOf(trend[j])) < Rank(DayOf(trend[j + 1]))
            /\ \A j \in 1..Len(trend) :
                   trend[j].calls =
                       Cardinality({i \in 1..Len(filteredCalls) :
                           filteredCalls[i].created_at = DayOf(trend[j])})
            /\ filteredCalls = <<>> => trend = <<>>

\* C26: isLoggedIn becomes true only when getCalls succeeded for the
\* submitted phone, which is then userPhone; a failed request leaves
\* isLoggedIn false and userPhone unchanged and sets loginError; after any
\* attempt isLoading is false; handleLogout resets isLoggedIn, userPhone and
\* loginError; the Dashboard is shown only while logged in with a phone.
C26_LoginOutcomes ==
    [][ /\ (~index.isLoggedIn /\ index'.isLoggedIn)
           => /\ index.request.status = "pending"
              /\ index'.request.status = "resolved"
              /\ index'.userPhone = index.request.phone
        /\ (index.request.status = "pending" /\ index'.request.status = "rejected")
           => /\ ~index'.isLoggedIn
              /\ index'.userPhone = index.userPhone
              /\ index'.loginError \notin {"null", ""}
        /\ (index.request.status = "pending" /\ index'.request.status # "pending")
           => ~index'.isLoading
        /\ (index.isLoggedIn /\ ~index'.isLoggedIn)
           => /\ index'.userPhone = <<>>
              /\ index'.loginError = "null"
        /\ IndexShows(index') = "Dashboard"
           => /\ index'.isLoggedIn
              /\ index'.userPhone # <<>>
              /\ index'.request = [status |-> "resolved",
                                   phone |-> index'.userPhone] ]_vars

C26_Witness ==
    /\ index.request.status = "rejected"
    /\ index.loginError = "Failed to fetch"
    /\ ~index.isLoggedIn
    /\ ~index.isLoading
    /\ index.userPhone = <<>>
    /\ index.attempts = 2
    /\ index.request.phone = <<"+">> \o Repeat("1", MinPhoneLen)

\* C27: LoginForm invokes onLogin only for an input whose trimmed text is
\* non-empty and passes validatePhoneNumber, with formatPhoneNumber of that
\* text, a '+' followed only by digits; for every other input it sets a
\* validation error and does not invoke onLogin.
C27_LoginOnlyValid ==
    loginForm.event = "submit" =>
        LET t == trim(loginForm.phone)
            ok == t # <<>> /\ validatePhoneNumber(t)
        IN  /\ ok => /\ loginForm.onLogin = <<formatPhoneNumber(t)>>
                     /\ Len(loginForm.onLogin[1]) >= 1
                     /\ loginForm.onLogin[1][1] = "+"
                     /\ \A k \in 2..Len(loginForm.onLogin[1]) :
                            loginForm.onLogin[1][k] = "1"
            /\ ~ok => /\ loginForm.onLogin = <<>>
                      /\ loginForm.validationError # "null"

C27_Witness ==
    /\ loginForm.event = "submit"
    /\ loginForm.phone = <<" ">> \o Repeat("1", MinPhoneLen) \o <<" ">>
    /\ loginForm.onLogin = << <<"+">> \o Repeat("1", MinPhoneLen) >>
    /\ loginForm.validationError = "null"

====
